---- MODULE Spec2Model ----
(***************************************************************************)
(* PengWM: the BSP tree engine of src/src/bsp.c, driven as the window      *)
(* manager drives it: one workspace root, window ids handed out by         *)
(* generate_window_id, and the calls bsp_insert, bsp_remove_window and     *)
(* bsp_find_neighbor on that root.  The window-manager layer on top of it  *)
(* keeps the registry g_managed_windows and tiles with wm_tile.            *)
(*                                                                         *)
(* The tree lives in a heap of BSPNode records indexed by address; calloc  *)
(* hands out the lowest free address, free poisons the cell.  Rectangle    *)
(* coordinates are CGFloat in the source; the root rectangles used here    *)
(* carry enough factors of two that every halving within the bounds is     *)
(* exact, so integer division is the real division: at most MaxWindows - 1 *)
(* splits happen in a run, and every rectangle is the root's halved along  *)
(* alternating axes.                                                       *)
(***************************************************************************)
EXTENDS Integers, Sequences, FiniteSets

VARIABLES heap, allocated, root, bounds, s_next_window_id, g_managed_windows, call

vars == <<heap, allocated, root, bounds, s_next_window_id, g_managed_windows, call>>

\* ---------------------------------------------------------------- bounds
\* number of window ids generate_window_id hands out in one run
MaxWindows == 4

\* ------------------------------------------------------------- constants
NULL == 0
\* bsp.c:90 "No windows yet": the window_id of an empty leaf
NoWindow == -1
\* window_control.c:19
FirstWindowId == 1000

\* a tree of k leaves has 2k-1 nodes, and a tree never has more leaves
\* than windows were handed out
\* number of window ids in the runs that go one split deeper
MaxDeepWindows == 5

\* a tree with k leaves has 2k - 1 nodes
MaxNodes == 2 * (IF MaxDeepWindows > MaxWindows THEN MaxDeepWindows ELSE MaxWindows) - 1
Addr == 1 .. MaxNodes

WindowIds == FirstWindowId .. (FirstWindowId + MaxWindows - 1)

\* CGRect
Rect(x, y, w, h) == [x |-> x, y |-> y, w |-> w, h |-> h]

\* display bounds a workspace can be created over (CGDisplayBounds)
DisplayBounds == { Rect(0, 0, 800, 600), Rect(0, 0, 600, 800), Rect(0, 0, 640, 640) }

\* calloc(1, sizeof(BSPNode)): every field zero
ZeroNode ==
  [is_leaf |-> FALSE, window_id |-> 0, rect |-> Rect(0, 0, 0, 0),
   split_vertical |-> FALSE, first |-> NULL, second |-> NULL, parent |-> NULL]

\* the content of a cell that is not allocated
FreedNode == ZeroNode

\* memory: the heap cells and the set of allocated addresses
Mem(h, a) == [heap |-> h, allocated |-> a]

\* calloc: the lowest free address, zero-filled
calloc_addr(m) ==
  CHOOSE a \in Addr \ m.allocated : \A b \in Addr \ m.allocated : a <= b

calloc(m) ==
  LET a == calloc_addr(m)
  IN  Mem([m.heap EXCEPT ![a] = ZeroNode], m.allocated \cup {a})

free(m, p) ==
  Mem([m.heap EXCEPT ![p] = FreedNode], m.allocated \ {p})

\* CGFloat /= 2
Half(v) == v \div 2

\* ------------------------------------------------------- bsp_create_root
bsp_create_root(m, screen_rect) ==
  LET p  == calloc_addr(m)
      m1 == calloc(m)
  IN  [mem |-> Mem([m1.heap EXCEPT ![p] =
                      [is_leaf |-> TRUE, window_id |-> NoWindow,
                       rect |-> screen_rect, split_vertical |-> FALSE,
                       first |-> NULL, second |-> NULL, parent |-> NULL]],
                   m1.allocated),
       ptr |-> p]

\* -------------------------------------------------------- bsp_split_leaf
\* split_rects with the second rectangle's origin left at the leaf's origin
split_rects_no_shift(rect, split_vertical) ==
  LET r1 == IF split_vertical
            THEN [rect EXCEPT !.w = Half(rect.w)]
            ELSE [rect EXCEPT !.h = Half(rect.h)]
      r2 == IF split_vertical
            THEN [rect EXCEPT !.w = Half(rect.w)]
            ELSE [rect EXCEPT !.h = Half(rect.h)]
  IN  [r1 |-> r1, r2 |-> r2]

\* split_rects giving the first rectangle a quarter and the second the rest
split_rects_uneven(rect, split_vertical) ==
  LET r1 == IF split_vertical
            THEN [rect EXCEPT !.w = Half(Half(rect.w))]
            ELSE [rect EXCEPT !.h = Half(Half(rect.h))]
      r2 == IF split_vertical
            THEN [rect EXCEPT !.x = rect.x + r1.w, !.w = rect.w - r1.w]
            ELSE [rect EXCEPT !.y = rect.y + r1.h, !.h = rect.h - r1.h]
  IN  [r1 |-> r1, r2 |-> r2]

\* "Split rectangle into two halves": r1 and r2 for the chosen orientation
split_rects(rect, split_vertical) ==
  LET r1 == IF split_vertical
            THEN [rect EXCEPT !.w = Half(rect.w)]
            ELSE [rect EXCEPT !.h = Half(rect.h)]
      r2 == IF split_vertical
            THEN [rect EXCEPT !.x = rect.x + r1.w, !.w = Half(rect.w)]
            ELSE [rect EXCEPT !.y = rect.y + r1.h, !.h = Half(rect.h)]
  IN  [r1 |-> r1, r2 |-> r2]

\* the two children of a split, as bsp_split_leaf builds them when both
\* allocations succeed, for the mutants below
SplitWith(m, leaf, split_vertical, r1, r2, first_id, second_id) ==
  LET first  == calloc_addr(m)
      m2     == calloc(m)
      second == calloc_addr(m2)
      m3     == calloc(m2)
  IN  Mem([m3.heap EXCEPT ![leaf].is_leaf = FALSE,
                          ![leaf].split_vertical = split_vertical,
                          ![leaf].first = first,
                          ![leaf].second = second,
                          ![leaf].window_id = NoWindow,
                          ![first] = [ZeroNode EXCEPT !.is_leaf = TRUE,
                                        !.rect = r1,
                                        !.window_id = first_id,
                                        !.parent = leaf],
                          ![second] = [ZeroNode EXCEPT !.is_leaf = TRUE,
                                        !.rect = r2,
                                        !.window_id = second_id,
                                        !.parent = leaf]],
          m3.allocated)

\* bsp_split_leaf with the new window in the first child and the old one
\* in the second
bsp_split_leaf_swapped(m, leaf, new_window_id, oom) ==
  IF leaf = NULL \/ ~m.heap[leaf].is_leaf
  THEN m
  ELSE LET old == m.heap[leaf]
           sv  == old.rect.w > old.rect.h
           r   == split_rects(old.rect, sv)
       IN  SplitWith(m, leaf, sv, r.r1, r.r2, new_window_id, old.window_id)

\* bsp_split_leaf comparing width >= height
bsp_split_leaf_ge(m, leaf, new_window_id, oom) ==
  IF leaf = NULL \/ ~m.heap[leaf].is_leaf
  THEN m
  ELSE LET old == m.heap[leaf]
           sv  == old.rect.w >= old.rect.h
           r   == split_rects(old.rect, sv)
       IN  SplitWith(m, leaf, sv, r.r1, r.r2, old.window_id, new_window_id)

\* bsp_split_leaf that never assigns second->rect
bsp_split_leaf_no_rect(m, leaf, new_window_id, oom) ==
  IF leaf = NULL \/ ~m.heap[leaf].is_leaf
  THEN m
  ELSE LET old == m.heap[leaf]
           sv  == old.rect.w > old.rect.h
           r   == split_rects(old.rect, sv)
       IN  SplitWith(m, leaf, sv, r.r1, ZeroNode.rect, old.window_id, new_window_id)

\* bsp_split_leaf without the final "leaf->window_id = -1"
bsp_split_leaf_keep_id(m, leaf, new_window_id, oom) ==
  IF leaf = NULL \/ ~m.heap[leaf].is_leaf
  THEN m
  ELSE LET old == m.heap[leaf]
           sv  == old.rect.w > old.rect.h
           r   == split_rects(old.rect, sv)
           m1  == SplitWith(m, leaf, sv, r.r1, r.r2, old.window_id, new_window_id)
       IN  Mem([m1.heap EXCEPT ![leaf].window_id = old.window_id], m1.allocated)

\* bsp_split_leaf with the second child given the leaf's window id too
bsp_split_leaf_dup(m, leaf, new_window_id, oom) ==
  IF leaf = NULL \/ ~m.heap[leaf].is_leaf
  THEN m
  ELSE
    LET old == m.heap[leaf]
        split_vertical == old.rect.w > old.rect.h
        r      == split_rects(old.rect, split_vertical)
        first  == calloc_addr(m)
        m2     == calloc(m)
        second == calloc_addr(m2)
        m3     == calloc(m2)
    IN  Mem([m3.heap EXCEPT ![leaf].is_leaf = FALSE,
                            ![leaf].split_vertical = split_vertical,
                            ![leaf].first = first,
                            ![leaf].second = second,
                            ![leaf].window_id = NoWindow,
                            ![first] = [ZeroNode EXCEPT !.is_leaf = TRUE,
                                          !.rect = r.r1,
                                          !.window_id = old.window_id,
                                          !.parent = leaf],
                            ![second] = [ZeroNode EXCEPT !.is_leaf = TRUE,
                                          !.rect = r.r2,
                                          !.window_id = old.window_id,
                                          !.parent = leaf]],
            m3.allocated)

\* oom = 0: both allocations succeed; oom = 1: the first calloc returns
\* NULL; oom = 2: the second calloc returns NULL
bsp_split_leaf(m, leaf, new_window_id, oom) ==
  IF leaf = NULL \/ ~m.heap[leaf].is_leaf
  THEN m
  ELSE
    LET old == m.heap[leaf]
        split_vertical == old.rect.w > old.rect.h
        \* leaf->is_leaf = false; leaf->split_vertical = split_vertical
        m1 == Mem([m.heap EXCEPT ![leaf].is_leaf = FALSE,
                                 ![leaf].split_vertical = split_vertical],
                  m.allocated)
        r  == split_rects(old.rect, split_vertical)
    IN
    IF oom = 1
    THEN m1
    ELSE
      LET first == calloc_addr(m1)
          m2a   == calloc(m1)
          m2    == Mem([m2a.heap EXCEPT ![first].is_leaf = TRUE,
                                        ![first].rect = r.r1,
                                        ![first].window_id = old.window_id,
                                        ![first].parent = leaf],
                       m2a.allocated)
      IN
      IF oom = 2
      THEN free(m2, first)
      ELSE
        LET second == calloc_addr(m2)
            m3a    == calloc(m2)
        IN  Mem([m3a.heap EXCEPT ![second].is_leaf = TRUE,
                                 ![second].rect = r.r2,
                                 ![second].window_id = new_window_id,
                                 ![second].parent = leaf,
                                 ![leaf].first = first,
                                 ![leaf].second = second,
                                 ![leaf].window_id = NoWindow],
                m3a.allocated)

\* bsp_insert descending through second children
RECURSIVE bsp_insert_second(_, _, _, _)
bsp_insert_second(m, node, window_id, oom) ==
  IF node = NULL
  THEN m
  ELSE IF m.heap[node].is_leaf
       THEN IF m.heap[node].window_id = NoWindow
            THEN Mem([m.heap EXCEPT ![node].window_id = window_id], m.allocated)
            ELSE bsp_split_leaf(m, node, window_id, oom)
       ELSE bsp_insert_second(m, m.heap[node].second, window_id, oom)

\* bsp_insert that splits the leaf it reaches whether or not it holds a
\* window id
RECURSIVE bsp_insert_always_split(_, _, _, _)
bsp_insert_always_split(m, node, window_id, oom) ==
  IF node = NULL
  THEN m
  ELSE IF m.heap[node].is_leaf
       THEN bsp_split_leaf(m, node, window_id, oom)
       ELSE bsp_insert_always_split(m, m.heap[node].first, window_id, oom)

\* ------------------------------------------------------------ bsp_insert
RECURSIVE bsp_insert(_, _, _, _)
bsp_insert(m, node, window_id, oom) ==
  IF node = NULL
  THEN m
  ELSE IF m.heap[node].is_leaf
       THEN IF m.heap[node].window_id = NoWindow
            THEN Mem([m.heap EXCEPT ![node].window_id = window_id], m.allocated)
            ELSE bsp_split_leaf(m, node, window_id, oom)
       ELSE bsp_insert(m, m.heap[node].first, window_id, oom)

\* ------------------------------------------- bsp_collapse_empty_branches
\* collapse_into that also copies the replacement's rectangle up
collapse_into_with_rect(m, node, empty, replacement) ==
  LET rep == m.heap[replacement]
      m1  == Mem([m.heap EXCEPT ![node].is_leaf = rep.is_leaf,
                                ![node].window_id = rep.window_id,
                                ![node].split_vertical = rep.split_vertical,
                                ![node].rect = rep.rect,
                                ![node].first = rep.first,
                                ![node].second = rep.second],
                 m.allocated)
      m2  == IF rep.first # NULL
             THEN Mem([m1.heap EXCEPT ![rep.first].parent = node], m1.allocated)
             ELSE m1
      m3  == IF rep.second # NULL
             THEN Mem([m2.heap EXCEPT ![rep.second].parent = node], m2.allocated)
             ELSE m2
  IN  free(free(m3, empty), replacement)

\* collapse_into without the parent fix-up of the adopted children
collapse_into_no_reparent(m, node, empty, replacement) ==
  LET rep == m.heap[replacement]
      m1  == Mem([m.heap EXCEPT ![node].is_leaf = rep.is_leaf,
                                ![node].window_id = rep.window_id,
                                ![node].split_vertical = rep.split_vertical,
                                ![node].first = rep.first,
                                ![node].second = rep.second],
                 m.allocated)
  IN  free(free(m1, empty), replacement)

\* collapse_into without "node->window_id = replacement->window_id"
collapse_into_no_id(m, node, empty, replacement) ==
  LET rep == m.heap[replacement]
      m1  == Mem([m.heap EXCEPT ![node].is_leaf = rep.is_leaf,
                                ![node].split_vertical = rep.split_vertical,
                                ![node].first = rep.first,
                                ![node].second = rep.second],
                 m.allocated)
      m2  == IF rep.first # NULL
             THEN Mem([m1.heap EXCEPT ![rep.first].parent = node], m1.allocated)
             ELSE m1
      m3  == IF rep.second # NULL
             THEN Mem([m2.heap EXCEPT ![rep.second].parent = node], m2.allocated)
             ELSE m2
  IN  free(free(m3, empty), replacement)

\* collapse_into without the final free(replacement)
collapse_into_leak(m, node, empty, replacement) ==
  LET rep == m.heap[replacement]
      m1  == Mem([m.heap EXCEPT ![node].is_leaf = rep.is_leaf,
                                ![node].window_id = rep.window_id,
                                ![node].split_vertical = rep.split_vertical,
                                ![node].first = rep.first,
                                ![node].second = rep.second],
                 m.allocated)
      m2  == IF rep.first # NULL
             THEN Mem([m1.heap EXCEPT ![rep.first].parent = node], m1.allocated)
             ELSE m1
      m3  == IF rep.second # NULL
             THEN Mem([m2.heap EXCEPT ![rep.second].parent = node], m2.allocated)
             ELSE m2
  IN  free(m3, empty)

\* the body shared by the two branches: node takes over replacement's
\* leaf state, window id, orientation and children; the empty leaf and
\* the replacement are freed
collapse_into(m, node, empty, replacement) ==
  LET rep == m.heap[replacement]
      m1  == Mem([m.heap EXCEPT ![node].is_leaf = rep.is_leaf,
                                ![node].window_id = rep.window_id,
                                ![node].split_vertical = rep.split_vertical],
                 m.allocated)
      m2  == free(m1, empty)
      m3  == Mem([m2.heap EXCEPT ![node].first = rep.first,
                                 ![node].second = rep.second],
                 m2.allocated)
      m4  == IF rep.first # NULL
             THEN Mem([m3.heap EXCEPT ![rep.first].parent = node], m3.allocated)
             ELSE m3
      m5  == IF rep.second # NULL
             THEN Mem([m4.heap EXCEPT ![rep.second].parent = node], m4.allocated)
             ELSE m4
  IN  free(m5, replacement)

\* bsp_collapse_empty_branches without the "second_empty" branch
bsp_collapse_first_only(m, node) ==
  IF node = NULL \/ m.heap[node].is_leaf
  THEN m
  ELSE
    LET f == m.heap[node].first
        s == m.heap[node].second
        first_empty  == m.heap[f].is_leaf /\ m.heap[f].window_id = NoWindow
        second_empty == m.heap[s].is_leaf /\ m.heap[s].window_id = NoWindow
    IN  IF first_empty /\ ~second_empty
        THEN collapse_into(m, node, f, s)
        ELSE m

bsp_collapse_empty_branches(m, node) ==
  IF node = NULL \/ m.heap[node].is_leaf
  THEN m
  ELSE
    LET f == m.heap[node].first
        s == m.heap[node].second
        first_empty  == m.heap[f].is_leaf /\ m.heap[f].window_id = NoWindow
        second_empty == m.heap[s].is_leaf /\ m.heap[s].window_id = NoWindow
    IN  IF first_empty /\ ~second_empty
        THEN collapse_into(m, node, f, s)
        ELSE IF second_empty /\ ~first_empty
             THEN collapse_into(m, node, s, f)
             ELSE m

\* bsp_remove_window that marks every leaf it visits empty before
\* comparing the id
RECURSIVE bsp_remove_window_clear_first(_, _, _)
bsp_remove_window_clear_first(m, node, window_id) ==
  IF node = NULL
  THEN [mem |-> m, ret |-> FALSE]
  ELSE IF m.heap[node].is_leaf
       THEN [mem |-> Mem([m.heap EXCEPT ![node].window_id = NoWindow],
                         m.allocated),
             ret |-> m.heap[node].window_id = window_id]
       ELSE
         LET r1 == bsp_remove_window_clear_first(m, m.heap[node].first, window_id)
         IN  IF r1.ret
             THEN [mem |-> bsp_collapse_empty_branches(r1.mem, node),
                   ret |-> TRUE]
             ELSE
               LET r2 == bsp_remove_window_clear_first(r1.mem, m.heap[node].second, window_id)
               IN  IF r2.ret
                   THEN [mem |-> bsp_collapse_empty_branches(r2.mem, node),
                         ret |-> TRUE]
                   ELSE [mem |-> r2.mem, ret |-> FALSE]

\* bsp_remove_window that returns without bsp_collapse_empty_branches
RECURSIVE bsp_remove_window_no_collapse(_, _, _)
bsp_remove_window_no_collapse(m, node, window_id) ==
  IF node = NULL
  THEN [mem |-> m, ret |-> FALSE]
  ELSE IF m.heap[node].is_leaf
       THEN IF m.heap[node].window_id = window_id
            THEN [mem |-> Mem([m.heap EXCEPT ![node].window_id = NoWindow],
                              m.allocated),
                  ret |-> TRUE]
            ELSE [mem |-> m, ret |-> FALSE]
       ELSE
         LET r1 == bsp_remove_window_no_collapse(m, m.heap[node].first, window_id)
         IN  IF r1.ret
             THEN r1
             ELSE bsp_remove_window_no_collapse(r1.mem, m.heap[node].second, window_id)

\* ----------------------------------------------------- bsp_remove_window
RECURSIVE bsp_remove_window(_, _, _)
bsp_remove_window(m, node, window_id) ==
  IF node = NULL
  THEN [mem |-> m, ret |-> FALSE]
  ELSE IF m.heap[node].is_leaf
       THEN IF m.heap[node].window_id = window_id
            THEN [mem |-> Mem([m.heap EXCEPT ![node].window_id = NoWindow],
                              m.allocated),
                  ret |-> TRUE]
            ELSE [mem |-> m, ret |-> FALSE]
       ELSE
         LET r1 == bsp_remove_window(m, m.heap[node].first, window_id)
         IN  IF r1.ret
             THEN [mem |-> bsp_collapse_empty_branches(r1.mem, node),
                   ret |-> TRUE]
             ELSE
               LET r2 == bsp_remove_window(r1.mem, m.heap[node].second, window_id)
               IN  IF r2.ret
                   THEN [mem |-> bsp_collapse_empty_branches(r2.mem, node),
                         ret |-> TRUE]
                   ELSE [mem |-> r2.mem, ret |-> FALSE]

\* ---------------------------------------------- bsp_find_node_for_window
\* bsp_find_node_for_window that never looks into a second child
RECURSIVE bsp_find_node_first_only(_, _, _)
bsp_find_node_first_only(h, node, window_id) ==
  IF node = NULL
  THEN NULL
  ELSE IF h[node].is_leaf
       THEN IF h[node].window_id = window_id THEN node ELSE NULL
       ELSE bsp_find_node_first_only(h, h[node].first, window_id)

RECURSIVE bsp_find_node_for_window(_, _, _)
bsp_find_node_for_window(h, node, window_id) ==
  IF node = NULL
  THEN NULL
  ELSE IF h[node].is_leaf
       THEN IF h[node].window_id = window_id THEN node ELSE NULL
       ELSE LET found == bsp_find_node_for_window(h, h[node].first, window_id)
            IN  IF found # NULL
                THEN found
                ELSE bsp_find_node_for_window(h, h[node].second, window_id)

\* ---------------------------------------------------------- bsp_traverse
\* bsp_traverse that skips the leaves without a window
RECURSIVE bsp_traverse_occupied_only(_, _)
bsp_traverse_occupied_only(h, node) ==
  IF node = NULL
  THEN <<>>
  ELSE IF h[node].is_leaf
       THEN IF h[node].window_id = NoWindow THEN <<>> ELSE <<node>>
       ELSE bsp_traverse_occupied_only(h, h[node].first)
              \o bsp_traverse_occupied_only(h, h[node].second)

\* bsp_traverse walking the second child before the first
RECURSIVE bsp_traverse_second_first(_, _)
bsp_traverse_second_first(h, node) ==
  IF node = NULL
  THEN <<>>
  ELSE IF h[node].is_leaf
       THEN <<node>>
       ELSE bsp_traverse_second_first(h, h[node].second)
              \o bsp_traverse_second_first(h, h[node].first)

\* the nodes the callback is invoked on, in the order of the calls (the
\* callback is never NULL here)
RECURSIVE bsp_traverse(_, _)
bsp_traverse(h, node) ==
  IF node = NULL
  THEN <<>>
  ELSE IF h[node].is_leaf
       THEN <<node>>
       ELSE bsp_traverse(h, h[node].first) \o bsp_traverse(h, h[node].second)

\* -------------------------------------------------------------- bsp_free
\* st is [mem, order]: the memory and the addresses passed to free so far
RECURSIVE bsp_free(_, _)
bsp_free(st, node) ==
  IF node = NULL
  THEN st
  ELSE LET s1 == bsp_free(st, st.mem.heap[node].first)
           s2 == bsp_free(s1, s1.mem.heap[node].second)
       IN  [mem |-> free(s2.mem, node), order |-> Append(s2.order, node)]

\* ------------------------------------------------------------ navigation
RECURSIVE bsp_find_leftmost_leaf(_, _)
bsp_find_leftmost_leaf(h, node) ==
  IF node # NULL /\ ~h[node].is_leaf
  THEN bsp_find_leftmost_leaf(h, h[node].first)
  ELSE node

\* bsp_find_rightmost_leaf descending through first children
RECURSIVE bsp_find_rightmost_leaf_first(_, _)
bsp_find_rightmost_leaf_first(h, node) ==
  IF node # NULL /\ ~h[node].is_leaf
  THEN bsp_find_rightmost_leaf_first(h, h[node].first)
  ELSE node

RECURSIVE bsp_find_rightmost_leaf(_, _)
bsp_find_rightmost_leaf(h, node) ==
  IF node # NULL /\ ~h[node].is_leaf
  THEN bsp_find_rightmost_leaf(h, h[node].second)
  ELSE node

RECURSIVE bsp_find_topmost_leaf(_, _)
bsp_find_topmost_leaf(h, node) ==
  IF node # NULL /\ ~h[node].is_leaf
  THEN bsp_find_topmost_leaf(h, h[node].first)
  ELSE node

RECURSIVE bsp_find_bottommost_leaf(_, _)
bsp_find_bottommost_leaf(h, node) ==
  IF node # NULL /\ ~h[node].is_leaf
  THEN bsp_find_bottommost_leaf(h, h[node].second)
  ELSE node

\* the while loops walk current up through parent; the recursion is on
\* current
RECURSIVE bsp_find_left_neighbor(_, _)
bsp_find_left_neighbor(h, current) ==
  IF h[current].parent = NULL
  THEN NULL
  ELSE LET parent == h[current].parent
       IN  IF h[parent].split_vertical /\ h[parent].second = current
           THEN bsp_find_rightmost_leaf(h, h[parent].first)
           ELSE bsp_find_left_neighbor(h, parent)

\* bsp_find_right_neighbor that looks at the immediate parent only
bsp_find_right_neighbor_no_climb(h, current) ==
  IF h[current].parent = NULL
  THEN NULL
  ELSE LET parent == h[current].parent
       IN  IF h[parent].split_vertical /\ h[parent].first = current
           THEN bsp_find_leftmost_leaf(h, h[parent].second)
           ELSE NULL

RECURSIVE bsp_find_right_neighbor(_, _)
bsp_find_right_neighbor(h, current) ==
  IF h[current].parent = NULL
  THEN NULL
  ELSE LET parent == h[current].parent
       IN  IF h[parent].split_vertical /\ h[parent].first = current
           THEN bsp_find_leftmost_leaf(h, h[parent].second)
           ELSE bsp_find_right_neighbor(h, parent)

RECURSIVE bsp_find_up_neighbor(_, _)
bsp_find_up_neighbor(h, current) ==
  IF h[current].parent = NULL
  THEN NULL
  ELSE LET parent == h[current].parent
       IN  IF ~h[parent].split_vertical /\ h[parent].second = current
           THEN bsp_find_bottommost_leaf(h, h[parent].first)
           ELSE bsp_find_up_neighbor(h, parent)

RECURSIVE bsp_find_down_neighbor(_, _)
bsp_find_down_neighbor(h, current) ==
  IF h[current].parent = NULL
  THEN NULL
  ELSE LET parent == h[current].parent
       IN  IF ~h[parent].split_vertical /\ h[parent].first = current
           THEN bsp_find_topmost_leaf(h, h[parent].second)
           ELSE bsp_find_down_neighbor(h, parent)

\* a direction token is a C string, modelled as the sequence of its
\* characters; NullToken is the NULL pointer
NullToken == <<"NULL">>
\* direction[0]: the first character, or the terminating NUL of ""
FirstChar(direction) == IF Len(direction) = 0 THEN "\\0" ELSE direction[1]

bsp_find_neighbor(h, node, direction) ==
  IF node = NULL \/ direction = NullToken
  THEN NULL
  ELSE LET c == FirstChar(direction)
       IN  IF c = "l" THEN bsp_find_left_neighbor(h, node)
           ELSE IF c = "r" THEN bsp_find_right_neighbor(h, node)
           ELSE IF c = "u" THEN bsp_find_up_neighbor(h, node)
           ELSE IF c = "d" THEN bsp_find_down_neighbor(h, node)
           ELSE NULL

\* cli.c validate_direction: the four valid tokens
validate_direction(direction) ==
  IF direction = NullToken
  THEN FALSE
  ELSE LET c == FirstChar(direction)
       IN  IF c = "l" THEN direction = <<"l", "e", "f", "t">>
           ELSE IF c = "r" THEN direction = <<"r", "i", "g", "h", "t">>
           ELSE IF c = "u" THEN direction = <<"u", "p">>
           ELSE IF c = "d" THEN direction = <<"d", "o", "w", "n">>
           ELSE FALSE

\* the direction tokens a caller may pass
Tokens ==
  { <<"l", "e", "f", "t">>, <<"r", "i", "g", "h", "t">>, <<"u", "p">>,
    <<"d", "o", "w", "n">>,
    NullToken, <<>>, <<"l">>, <<"l", "e", "f", "t", "!">>, <<"r", "o", "w">>,
    <<"u">>, <<"d", "o">>, <<"L", "e", "f", "t">>, <<"x">> }

\* ------------------------------------------------------ managed windows
\* ManagedWindow (window_ref and app_name play no part here)
ManagedWindow(window_id, pid, frame) ==
  [window_id |-> window_id, pid |-> pid, frame |-> frame]

\* wm_find_managed_window: the index of the first entry with the id, 0
\* for NULL
wm_find_managed_window(reg, window_id) ==
  IF \E i \in 1 .. Len(reg) : reg[i].window_id = window_id
  THEN CHOOSE i \in 1 .. Len(reg) :
         /\ reg[i].window_id = window_id
         /\ \A j \in 1 .. (i - 1) : reg[j].window_id # window_id
  ELSE 0

add_to_managed_windows(reg, window_id, pid, frame) ==
  Append(reg, ManagedWindow(window_id, pid, frame))

\* the first entry with the id is dropped and the entries after it shift
\* down
remove_from_managed_windows(reg, window_id) ==
  LET i == wm_find_managed_window(reg, window_id)
  IN  IF i = 0
      THEN reg
      ELSE SubSeq(reg, 1, i - 1) \o SubSeq(reg, i + 1, Len(reg))

\* ------------------------------------------------------- wm_close_window
\* size_t arithmetic of the loop index: 0 - 1 wraps to SIZE_MAX and
\* SIZE_MAX + 1 wraps to 0.  SIZE_MAX is written as the integer with the
\* same bits; the loop never compares it
SIZE_MAX == -1
size_t_dec(i) == IF i = 0 THEN SIZE_MAX ELSE i - 1
size_t_inc(i) == IF i = SIZE_MAX THEN 0 ELSE i + 1

\* wm_remove_from_bsp_tree with the one workspace
wm_remove_from_bsp_tree(m, wsroot, window_id) ==
  bsp_remove_window(m, wsroot, window_id).mem

\* the for loop of wm_close_window from index i on (the array is indexed
\* from 0, the sequence from 1); st is [mem, reg, windows_removed].  This
\* one leaves out the "i--" after a removal
RECURSIVE wm_close_loop_no_recheck(_, _, _, _)
wm_close_loop_no_recheck(st, wsroot, i, pid) ==
  IF ~(i < Len(st.reg))
  THEN st
  ELSE IF st.reg[i + 1].pid = pid
       THEN LET window_id == st.reg[i + 1].window_id
                st1 == [mem |-> wm_remove_from_bsp_tree(st.mem, wsroot, window_id),
                        reg |-> remove_from_managed_windows(st.reg, window_id),
                        windows_removed |-> st.windows_removed + 1]
            IN  wm_close_loop_no_recheck(st1, wsroot, size_t_inc(i), pid)
       ELSE wm_close_loop_no_recheck(st, wsroot, size_t_inc(i), pid)

RECURSIVE wm_close_loop(_, _, _, _)
wm_close_loop(st, wsroot, i, pid) ==
  IF ~(i < Len(st.reg))
  THEN st
  ELSE IF st.reg[i + 1].pid = pid
       THEN LET window_id == st.reg[i + 1].window_id
                st1 == [mem |-> wm_remove_from_bsp_tree(st.mem, wsroot, window_id),
                        reg |-> remove_from_managed_windows(st.reg, window_id),
                        windows_removed |-> st.windows_removed + 1]
            IN  wm_close_loop(st1, wsroot, size_t_inc(size_t_dec(i)), pid)
       ELSE wm_close_loop(st, wsroot, size_t_inc(i), pid)

\* ---------------------------------------------------------------- wm_tile
\* st is [mem, reg, visited]: the heap, the registry and the leaves the
\* callback has been given so far; fails is the set of window ids for
\* which set_window_frame returns false in this pass

\* wm_apply_layout_to_leaf that updates the cached frame whatever
\* set_window_frame returns
wm_apply_layout_always_cache(st, leaf, fails) ==
  LET st1 == [st EXCEPT !.visited = Append(@, leaf)]
      n   == st.mem.heap[leaf]
      window == wm_find_managed_window(st.reg, n.window_id)
  IN  IF leaf = NULL \/ ~n.is_leaf \/ n.window_id = NoWindow
      THEN st1
      ELSE IF window = 0
           THEN st1
           ELSE [st1 EXCEPT !.reg[window].frame = n.rect]

wm_apply_layout_to_leaf(st, leaf, fails) ==
  LET st1 == [st EXCEPT !.visited = Append(@, leaf)]
      n   == st.mem.heap[leaf]
      window == wm_find_managed_window(st.reg, n.window_id)
  IN  IF leaf = NULL \/ ~n.is_leaf \/ n.window_id = NoWindow
      THEN st1
      ELSE IF window = 0
           THEN st1
           ELSE IF n.window_id \in fails
                THEN st1
                ELSE [st1 EXCEPT !.reg[window].frame = n.rect]

\* the callback applied to the leaves in the order bsp_traverse gives them
RECURSIVE apply_to_leaves(_, _, _)
apply_to_leaves(st, leaves, fails) ==
  IF leaves = <<>>
  THEN st
  ELSE apply_to_leaves(wm_apply_layout_to_leaf(st, Head(leaves), fails),
                       Tail(leaves), fails)

\* wm_tile on an initialized manager with its one workspace
wm_tile(m, reg, wsroot, fails) ==
  apply_to_leaves([mem |-> m, reg |-> reg, visited |-> <<>>],
                  bsp_traverse(m.heap, wsroot), fails)

\* --------------------------------------------------------------- helpers
\* nodes reachable from n through first/second
RECURSIVE Subtree(_, _)
Subtree(h, n) ==
  IF n = NULL THEN {}
  ELSE IF h[n].is_leaf THEN {n}
  ELSE {n} \cup Subtree(h, h[n].first) \cup Subtree(h, h[n].second)

Nodes == Subtree(heap, root)
Leaves == { n \in Nodes : heap[n].is_leaf }
Internals == { n \in Nodes : ~heap[n].is_leaf }
HeldBy(h, n) == { h[l].window_id : l \in { k \in Subtree(h, n) : h[k].is_leaf /\ h[k].window_id # NoWindow } }
Held == HeldBy(heap, root)
\* the ids generate_window_id has handed out so far
HandedOut == FirstWindowId .. (s_next_window_id - 1)
\* no bsp_remove_window call has removed a window yet
PureInsert == Held = HandedOut

\* ------------------------------------------------------------------ state
NoCall ==
  [op |-> "none", id |-> 0, node |-> NULL, dir |-> <<>>, oom |-> 0, ret |-> 0,
   visited |-> <<>>, fails |-> {}]

\* init_workspaces: one root per display, an empty leaf over its bounds
Init ==
  \E b \in DisplayBounds :
    LET r == bsp_create_root(Mem([a \in Addr |-> FreedNode], {}), b)
    IN  /\ heap = r.mem.heap
        /\ allocated = r.mem.allocated
        /\ root = r.ptr
        /\ bounds = b
        /\ s_next_window_id = FirstWindowId
        /\ g_managed_windows = <<>>
        /\ call = NoCall

\* bsp_insert(workspace->root, generate_window_id())
Insert ==
  /\ s_next_window_id < FirstWindowId + MaxWindows
  /\ LET m == bsp_insert(Mem(heap, allocated), root, s_next_window_id, 0)
     IN  /\ heap' = m.heap
         /\ allocated' = m.allocated
  /\ call' = [NoCall EXCEPT !.op = "insert", !.id = s_next_window_id]
  /\ s_next_window_id' = s_next_window_id + 1
  /\ UNCHANGED <<root, bounds, g_managed_windows>>

\* bsp_remove_window(workspace->root, id)
RemoveWindow(id) ==
  /\ LET r == bsp_remove_window(Mem(heap, allocated), root, id)
     IN  /\ heap' = r.mem.heap
         /\ allocated' = r.mem.allocated
         /\ call' = [NoCall EXCEPT !.op = "remove", !.id = id,
                                   !.ret = IF r.ret THEN 1 ELSE 0]
  /\ UNCHANGED <<root, bounds, s_next_window_id, g_managed_windows>>

\* bsp_find_neighbor(node, direction) on a node of the tree
FindNeighbor(node, direction) ==
  /\ call' = [NoCall EXCEPT !.op = "find_neighbor", !.node = node,
                            !.dir = direction,
                            !.ret = bsp_find_neighbor(heap, node, direction)]
  /\ UNCHANGED <<heap, allocated, root, bounds, s_next_window_id, g_managed_windows>>

\* bsp_find_node_for_window(workspace->root, id)
FindNodeForWindow(id) ==
  /\ call' = [NoCall EXCEPT !.op = "find_node", !.id = id,
                            !.ret = bsp_find_node_for_window(heap, root, id)]
  /\ UNCHANGED <<heap, allocated, root, bounds, s_next_window_id, g_managed_windows>>

\* bsp_traverse(workspace->root, callback) with a callback that only
\* records the node it is given
Traverse ==
  /\ call' = [NoCall EXCEPT !.op = "traverse",
                            !.visited = bsp_traverse(heap, root)]
  /\ UNCHANGED <<heap, allocated, root, bounds, s_next_window_id, g_managed_windows>>

Next ==
  \/ Insert
  \/ \E id \in WindowIds : RemoveWindow(id)
  \/ \E node \in Leaves, direction \in Tokens : FindNeighbor(node, direction)
  \/ \E id \in WindowIds : FindNodeForWindow(id)
  \/ Traverse

Spec == Init /\ [][Next]_vars

\* ------------------------------------------------ insert all, remove all
\* bsp_insert while nothing has been removed yet
RoundTripInsert == PureInsert /\ Insert

\* bsp_remove_window of a window still held
RoundTripRemove(id) == id \in Held /\ RemoveWindow(id)

NextRoundTrip ==
  \/ RoundTripInsert
  \/ \E id \in WindowIds : RoundTripRemove(id)

SpecRoundTrip == Init /\ [][NextRoundTrip]_vars

\* ------------------------------------------------------ calloc may fail
\* bsp_insert(workspace->root, generate_window_id()) reaching an occupied
\* leaf, with the first (oom = 1) or the second (oom = 2) calloc of
\* bsp_split_leaf returning NULL
InsertAllocFail(oom) ==
  /\ s_next_window_id < FirstWindowId + MaxWindows
  /\ LET target == bsp_find_leftmost_leaf(heap, root)
     IN  /\ target # NULL
         /\ heap[target].window_id # NoWindow
  /\ LET m == bsp_insert(Mem(heap, allocated), root, s_next_window_id, oom)
     IN  /\ heap' = m.heap
         /\ allocated' = m.allocated
  /\ call' = [NoCall EXCEPT !.op = "insert", !.id = s_next_window_id, !.oom = oom]
  /\ s_next_window_id' = s_next_window_id + 1
  /\ UNCHANGED <<root, bounds, g_managed_windows>>

NextAllocFail ==
  \/ Next
  \/ \E oom \in {1, 2} : InsertAllocFail(oom)

SpecAllocFail == Init /\ [][NextAllocFail]_vars

\* ----------------------------------------- displays of other proportions
\* display bounds with a wide, a tall and a square rectangle
GeometryBounds == { Rect(0, 0, 200, 100), Rect(0, 0, 100, 200), Rect(0, 0, 100, 100) }

\* init_workspaces over one of the GeometryBounds
InitGeometry ==
  \E b \in GeometryBounds :
    LET r == bsp_create_root(Mem([a \in Addr |-> FreedNode], {}), b)
    IN  /\ heap = r.mem.heap
        /\ allocated = r.mem.allocated
        /\ root = r.ptr
        /\ bounds = b
        /\ s_next_window_id = FirstWindowId
        /\ g_managed_windows = <<>>
        /\ call = NoCall

SpecGeometry == InitGeometry /\ [][Next]_vars

\* ------------------------------------------------- the window manager
\* number of windows wm_add_window adds in one run
MaxManaged == 3
ManagedIds == FirstWindowId .. (FirstWindowId + MaxManaged - 1)

\* process id of the application whose windows are added
Pids == {501}

\* the frame a window has when it is discovered; it intersects every
\* display bounds used here
DiscoveredFrame == Rect(50, 50, 300, 200)

\* wm_add_window(pid) for an application with one window that is not
\* managed yet: the window gets the next id, goes into the tree and the
\* registry, and the workspace is re-tiled
WmAddWindow(pid, fails) ==
  /\ s_next_window_id < FirstWindowId + MaxManaged
  /\ LET window_id == s_next_window_id
         m   == bsp_insert(Mem(heap, allocated), root, window_id, 0)
         reg == add_to_managed_windows(g_managed_windows, window_id, pid,
                                       DiscoveredFrame)
         st  == wm_tile(m, reg, root, fails)
     IN  /\ heap' = st.mem.heap
         /\ allocated' = st.mem.allocated
         /\ g_managed_windows' = st.reg
         /\ call' = [NoCall EXCEPT !.op = "wm_add_window", !.id = window_id,
                                   !.fails = fails, !.visited = st.visited]
  /\ s_next_window_id' = s_next_window_id + 1
  /\ UNCHANGED <<root, bounds>>

\* wm_tile()
WmTile(fails) ==
  /\ LET st == wm_tile(Mem(heap, allocated), g_managed_windows, root, fails)
     IN  /\ heap' = st.mem.heap
         /\ allocated' = st.mem.allocated
         /\ g_managed_windows' = st.reg
         /\ call' = [NoCall EXCEPT !.op = "wm_tile", !.fails = fails,
                                   !.visited = st.visited]
  /\ UNCHANGED <<root, bounds, s_next_window_id>>

\* handle_window_destroyed for the window registered under window_id: the
\* registry entry goes, the tree is not touched
WindowDestroyed(window_id) ==
  /\ wm_find_managed_window(g_managed_windows, window_id) # 0
  /\ g_managed_windows' = remove_from_managed_windows(g_managed_windows, window_id)
  /\ call' = [NoCall EXCEPT !.op = "window_destroyed", !.id = window_id]
  /\ UNCHANGED <<heap, allocated, root, bounds, s_next_window_id>>

\* set_window_frame is called, and so can fail, only for windows that exist
NextTile ==
  \/ \E pid \in Pids, fails \in SUBSET (HandedOut \cup {s_next_window_id}) :
       WmAddWindow(pid, fails)
  \/ \E fails \in SUBSET HandedOut : WmTile(fails)
  \/ \E window_id \in ManagedIds : WindowDestroyed(window_id)

SpecTile == Init /\ [][NextTile]_vars

\* ------------------------------------------- one split deeper
DeepWindowIds == FirstWindowId .. (FirstWindowId + MaxDeepWindows - 1)

\* bsp_insert(workspace->root, generate_window_id()), up to MaxDeepWindows
\* ids
DeepInsert ==
  /\ s_next_window_id < FirstWindowId + MaxDeepWindows
  /\ LET m == bsp_insert(Mem(heap, allocated), root, s_next_window_id, 0)
     IN  /\ heap' = m.heap
         /\ allocated' = m.allocated
  /\ call' = [NoCall EXCEPT !.op = "insert", !.id = s_next_window_id]
  /\ s_next_window_id' = s_next_window_id + 1
  /\ UNCHANGED <<root, bounds, g_managed_windows>>

NextDeep ==
  \/ DeepInsert
  \/ \E id \in DeepWindowIds : RemoveWindow(id)

SpecDeep == Init /\ [][NextDeep]_vars

\* ------------------------------------------------------- node lifetime
\* wm_cleanup: the tree is freed, the workspace array and the registry are
\* dropped; nothing runs on the tree afterwards
WmCleanup ==
  /\ root # NULL
  /\ LET st == bsp_free([mem |-> Mem(heap, allocated), order |-> <<>>], root)
     IN  /\ heap' = st.mem.heap
         /\ allocated' = st.mem.allocated
         /\ call' = [NoCall EXCEPT !.op = "cleanup", !.visited = st.order]
  /\ root' = NULL
  /\ g_managed_windows' = <<>>
  /\ UNCHANGED <<bounds, s_next_window_id>>

LifetimeInsert == root # NULL /\ Insert

LifetimeRemove(id) == root # NULL /\ RemoveWindow(id)

NextLifetime ==
  \/ LifetimeInsert
  \/ \E id \in WindowIds : LifetimeRemove(id)
  \/ WmCleanup

SpecLifetime == Init /\ [][NextLifetime]_vars

\* -------------------------------------------------------- closing by pid
\* process ids of two applications
ClosePids == {501, 502}

\* wm_close_window(pid) on an initialized manager: every managed window of
\* the pid is taken out of the tree and the registry, and the workspace is
\* re-tiled when at least one was removed; call.id holds the pid
WmCloseWindow(pid, fails) ==
  /\ LET st == wm_close_loop([mem |-> Mem(heap, allocated),
                              reg |-> g_managed_windows,
                              windows_removed |-> 0], root, 0, pid)
         t  == IF st.windows_removed > 0
               THEN wm_tile(st.mem, st.reg, root, fails)
               ELSE [mem |-> st.mem, reg |-> st.reg, visited |-> <<>>]
     IN  /\ heap' = t.mem.heap
         /\ allocated' = t.mem.allocated
         /\ g_managed_windows' = t.reg
         /\ call' = [NoCall EXCEPT !.op = "wm_close_window", !.id = pid,
                                   !.ret = st.windows_removed,
                                   !.fails = fails, !.visited = t.visited]
  /\ UNCHANGED <<root, bounds, s_next_window_id>>

\* set_window_frame succeeds for every window or for none
NextClose ==
  \/ \E pid \in ClosePids : WmAddWindow(pid, {})
  \/ \E pid \in ClosePids, fails \in {{}, HandedOut} : WmCloseWindow(pid, fails)
  \/ \E window_id \in ManagedIds : WindowDestroyed(window_id)

SpecClose == Init /\ [][NextClose]_vars

\* bsp_remove_window(workspace->root, -1)
RemoveNoWindow == RemoveWindow(NoWindow)

\* bsp_find_node_for_window(workspace->root, -1)
FindNoWindow == FindNodeForWindow(NoWindow)

NextSentinel ==
  \/ Next
  \/ RemoveNoWindow
  \/ FindNoWindow

SpecSentinel == Init /\ [][NextSentinel]_vars

TypeOK ==
  /\ allocated \subseteq Addr
  /\ root \in Addr
  /\ s_next_window_id \in FirstWindowId .. (FirstWindowId + MaxNodes)
  /\ \A i \in 1 .. Len(g_managed_windows) :
       g_managed_windows[i].window_id \in HandedOut

\* ==================================================================
\* Properties
\* ==================================================================
RectOf(n) == heap[n].rect

\* the two children of n tile n's rectangle along n's orientation
Tiles(n) ==
  LET r == RectOf(n)
      f == RectOf(heap[n].first)
      s == RectOf(heap[n].second)
  IN  IF heap[n].split_vertical
      THEN /\ f.y = r.y /\ s.y = r.y /\ f.h = r.h /\ s.h = r.h
           /\ f.x = r.x /\ s.x = f.x + f.w /\ f.w + s.w = r.w
      ELSE /\ f.x = r.x /\ s.x = r.x /\ f.w = r.w /\ s.w = r.w
           /\ f.y = r.y /\ s.y = f.y + f.h /\ f.h + s.h = r.h


InteriorsDisjoint(a, b) ==
  \/ a.x + a.w <= b.x \/ b.x + b.w <= a.x
  \/ a.y + a.h <= b.y \/ b.y + b.h <= a.y

Inside(a, b) ==
  /\ b.x <= a.x /\ a.x + a.w <= b.x + b.w
  /\ b.y <= a.y /\ a.y + a.h <= b.y + b.h

\* C1: for every internal node the rectangles of its two children exactly
\* partition the node's own rectangle along the node's split orientation.
C1_Tiling == \A n \in Internals : Tiles(n)

\* C2: the rectangles of any two distinct leaves have disjoint interiors,
\* and every leaf rectangle lies inside the root's rectangle.
C2_NonOverlapping ==
  /\ \A a, b \in Leaves : a # b => InteriorsDisjoint(RectOf(a), RectOf(b))
  /\ \A a \in Leaves : Inside(RectOf(a), RectOf(root))

\* C2 witness: several leaves, one of them under a node that adopted its
\* grandchildren in a collapse
C2_Witness ==
  /\ Cardinality(Leaves) >= 3
  /\ \E n \in Internals : ~Tiles(n)

\* C3: no window identifier is held by more than one leaf of the tree.
C3_Uniqueness ==
  \A a, b \in Leaves :
    (a # b /\ heap[a].window_id # NoWindow) => heap[a].window_id # heap[b].window_id

\* C3 witness: three windows held after a split and a removal with its
\* collapse
C3_Witness ==
  /\ Cardinality(Held) >= 3
  /\ Cardinality(Leaves) >= 3
  /\ ~PureInsert

\* the tree is the root alone, an empty leaf
SingleEmptyRoot ==
  /\ Nodes = {root}
  /\ allocated = {root}
  /\ heap[root].is_leaf
  /\ heap[root].window_id = NoWindow
  /\ heap[root].first = NULL /\ heap[root].second = NULL

\* C4: N distinct ids inserted into a fresh root over R and then all
\* removed, in any order, leave the root alone, an empty leaf over R.
C4_RoundTrip ==
  (HandedOut # {} /\ Held = {}) => (SingleEmptyRoot /\ heap[root].rect = bounds)

\* C4 witness: MaxWindows ids were inserted and the last one has just been
\* removed
C4_Witness ==
  /\ s_next_window_id = FirstWindowId + MaxWindows
  /\ Held = {}
  /\ call.op = "remove" /\ call.ret = 1

\* C5: whenever the tree holds no window it is the root alone, an empty
\* leaf; and no internal node exists whose subtree holds no window.
C5_Collapse ==
  /\ Held = {} => SingleEmptyRoot
  /\ \A n \in Internals : HeldBy(heap, n) # {}

\* C5 witness: inserts went on after a removal, and then the last window
\* was removed
C5_Witness ==
  /\ Held = {}
  /\ Cardinality(HandedOut) >= 3
  /\ call.op = "remove" /\ call.ret = 1

\* C6: both children of every internal node point back at it, and the
\* root has no parent.
C6_ParentConsistency ==
  /\ heap[root].parent = NULL
  /\ \A n \in Internals :
       /\ heap[heap[n].first].parent = n
       /\ heap[heap[n].second].parent = n

\* C6 witness: a removal has just made the root adopt its grandchildren
C6_Witness ==
  /\ call.op = "remove" /\ call.ret = 1
  /\ ~heap[root].is_leaf
  /\ ~Tiles(root)

\* C7: if allocating the first or the second child fails inside
\* bsp_split_leaf, the tree is left exactly as before the call and no node
\* stays allocated.
C7_SplitAllocFailureAtomic ==
  [][(call'.op = "insert" /\ call'.oom # 0)
       => (heap' = heap /\ allocated' = allocated)]_vars

LeftOf(n) == bsp_find_left_neighbor(heap, n)
RightOf(n) == bsp_find_right_neighbor(heap, n)
UpOf(n) == bsp_find_up_neighbor(heap, n)
DownOf(n) == bsp_find_down_neighbor(heap, n)

\* C8: in every tree produced purely by bsp_insert, if
\* bsp_find_right_neighbor(A) returns B then bsp_find_left_neighbor(B)
\* returns A, and likewise for down/up.
C8_NeighborSymmetry ==
  PureInsert =>
    \A a \in Leaves :
      /\ RightOf(a) # NULL => LeftOf(RightOf(a)) = a
      /\ DownOf(a) # NULL => UpOf(DownOf(a)) = a

\* C8 amended: in every tree produced purely by bsp_insert, if
\* bsp_find_right_neighbor(A) returns B then bsp_find_left_neighbor(B)
\* returns a leaf C, which need not be A, whose right neighbor is B
\* again; likewise for down/up.
C8_NeighborRoundTrip ==
  PureInsert =>
    \A a \in Leaves :
      /\ RightOf(a) # NULL =>
           /\ LeftOf(RightOf(a)) \in Leaves
           /\ RightOf(LeftOf(RightOf(a))) = RightOf(a)
      /\ DownOf(a) # NULL =>
           /\ UpOf(DownOf(a)) \in Leaves
           /\ DownOf(UpOf(DownOf(a))) = DownOf(a)

\* C8 witness: a leaf whose right neighbor's left neighbor is another leaf
C8_Witness ==
  /\ PureInsert
  /\ \E a \in Leaves : RightOf(a) # NULL /\ LeftOf(RightOf(a)) # a

\* C9: bsp_remove_window(root, id) returns false and changes nothing in
\* the tree whenever no leaf holds id.
C9_RemoveAbsent ==
  [][(call'.op = "remove" /\ call'.id \notin Held)
       => (call'.ret = 0 /\ heap' = heap /\ allocated' = allocated /\ root' = root)]_vars

\* C9 witness: a removal has just returned false on a tree with internal
\* nodes
C9_Witness ==
  /\ call.op = "remove" /\ call.ret = 0
  /\ Cardinality(Nodes) >= 3

\* C10: bsp_find_neighbor returns none for every direction token that is
\* not one of the four valid tokens left, right, up, down.
C10_InvalidDirection ==
  (call.op = "find_neighbor" /\ ~validate_direction(call.dir)) => call.ret = NULL

\* C11: for every id that no leaf holds, the value of the empty state
\* included, bsp_find_node_for_window returns none and bsp_remove_window
\* returns false, also on a tree that contains an empty leaf.
C11_EmptyIsNotAnId ==
  [][(call'.op \in {"remove", "find_node"} /\ call'.id \notin Held)
       => call'.ret = 0]_vars

\* C12: over (0,0,800,600): after the first insert the root is a leaf
\* holding W1 with the rect unchanged; after the second the root is a
\* vertical split with W1 in (0,0,400,600) and W2 in (400,0,400,600); after
\* removing W1 the root is a single leaf holding W2 over (0,0,800,600).
C12_Scenario ==
  LET W1 == FirstWindowId
      W2 == FirstWindowId + 1
      f  == heap[heap[root].first]
      s  == heap[heap[root].second]
  IN  bounds = Rect(0, 0, 800, 600) =>
        /\ (s_next_window_id = W1 + 1 /\ PureInsert) =>
             /\ heap[root].is_leaf
             /\ heap[root].window_id = W1
             /\ heap[root].rect = Rect(0, 0, 800, 600)
        /\ (s_next_window_id = W2 + 1 /\ PureInsert) =>
             /\ ~heap[root].is_leaf
             /\ heap[root].split_vertical
             /\ f.is_leaf /\ f.rect = Rect(0, 0, 400, 600) /\ f.window_id = W1
             /\ s.is_leaf /\ s.rect = Rect(400, 0, 400, 600) /\ s.window_id = W2
        /\ (s_next_window_id = W2 + 1 /\ Held = {W2}) =>
             /\ Nodes = {root}
             /\ heap[root].is_leaf
             /\ heap[root].window_id = W2
             /\ heap[root].rect = Rect(0, 0, 800, 600)

\* C12 witness: the end of the scenario, W1 has just been removed
C12_Witness ==
  /\ bounds = Rect(0, 0, 800, 600)
  /\ s_next_window_id = FirstWindowId + 2
  /\ Held = {FirstWindowId + 1}
  /\ call.op = "remove" /\ call.id = FirstWindowId /\ call.ret = 1

\* the leaf bsp_insert reaches from the root
InsertTarget == bsp_find_leftmost_leaf(heap, root)
\* the step is a bsp_insert that splits an occupied leaf
SplitStep ==
  /\ call'.op = "insert" /\ call'.oom = 0
  /\ heap[InsertTarget].window_id # NoWindow

\* C13: bsp_split_leaf splits vertically exactly when the leaf is strictly
\* wider than tall and horizontally otherwise: 200x100 gives two 100x100
\* children side by side, 100x200 two 100x100 children stacked, 100x100 a
\* horizontal split.
C13_SplitOrientation ==
  [][SplitStep =>
       LET t == InsertTarget
           r == heap[t].rect
           f == heap'[heap'[t].first].rect
           s == heap'[heap'[t].second].rect
       IN  /\ heap'[t].split_vertical = (r.w > r.h)
           /\ heap'[t].split_vertical =>
                (f.y = s.y /\ f.h = r.h /\ s.h = r.h /\ s.x = f.x + f.w)
           /\ ~heap'[t].split_vertical =>
                (f.x = s.x /\ f.w = r.w /\ s.w = r.w /\ s.y = f.y + f.h)
           /\ (r.w = 200 /\ r.h = 100) =>
                (heap'[t].split_vertical /\ f.w = 100 /\ f.h = 100
                                         /\ s.w = 100 /\ s.h = 100)
           /\ (r.w = 100 /\ r.h = 200) =>
                (~heap'[t].split_vertical /\ f.w = 100 /\ f.h = 100
                                          /\ s.w = 100 /\ s.h = 100)
           /\ (r.w = 100 /\ r.h = 100) => ~heap'[t].split_vertical]_vars

\* C13 witness: a square root has just been split
C13_Witness ==
  /\ bounds = Rect(0, 0, 100, 100)
  /\ s_next_window_id = FirstWindowId + 2
  /\ PureInsert
  /\ call.op = "insert"
  /\ ~heap[root].is_leaf

\* the tree without its window ids: nodes, edges, orientations, rectangles
Shape(h) == [a \in Addr |-> [h[a] EXCEPT !.window_id = 0]]
OccupiedLeaves == { n \in Leaves : heap[n].window_id # NoWindow }

\* C14: after bsp_insert of a new id exactly one leaf holds it and every
\* window held before is still held by exactly one leaf; the shape of the
\* tree is unchanged if the leaf reached was empty and changes only when
\* it was occupied.
C14_InsertEffect ==
  [][(call'.op = "insert" /\ call'.oom = 0) =>
       /\ call'.id \notin Held
       /\ Held' = Held \cup {call'.id}
       /\ Cardinality(OccupiedLeaves') = Cardinality(Held')
       /\ heap[InsertTarget].window_id = NoWindow =>
            (Shape(heap') = Shape(heap) /\ allocated' = allocated)
       /\ (Shape(heap') # Shape(heap) \/ allocated' # allocated) =>
            heap[InsertTarget].window_id # NoWindow]_vars

\* C14 witness: an insert has just occupied the root emptied by a removal
C14_Witness ==
  /\ call.op = "insert"
  /\ Cardinality(HandedOut) >= 2
  /\ Held = {call.id}
  /\ Nodes = {root}

\* C15: every leaf rectangle has positive width and height.
C15_NonDegenerate ==
  \A n \in Leaves : heap[n].rect.w > 0 /\ heap[n].rect.h > 0

\* C15 witness: a leaf three halvings below the root, after a removal
C15_Witness ==
  /\ ~PureInsert
  /\ \E n \in Leaves :
       heap[n].rect.w * heap[n].rect.h * 8 = bounds.w * bounds.h

\* a comes before b in depth-first, first-child-then-second-child order
Before(a, b) ==
  \E n \in Internals :
    /\ a \in Subtree(heap, heap[n].first)
    /\ b \in Subtree(heap, heap[n].second)

C17_Lookup ==
  [][call'.op = "find_node" =>
       /\ heap' = heap /\ allocated' = allocated /\ root' = root
       /\ IF call'.id \in Held
          THEN /\ call'.ret \in Leaves
               /\ heap[call'.ret].window_id = call'.id
               /\ \A l \in Leaves :
                    (l # call'.ret /\ heap[l].window_id = call'.id)
                      => Before(call'.ret, l)
          ELSE call'.ret = NULL]_vars

\* C17 witness: the lookup has just returned a leaf that is a second child
C17_Witness ==
  /\ call.op = "find_node"
  /\ call.ret # NULL
  /\ heap[call.ret].parent # NULL
  /\ heap[heap[call.ret].parent].second = call.ret

\* what one tiling pass over the tree in h does to the registry: ids and
\* pids stay, and a cached frame becomes the leaf's rectangle exactly when
\* a leaf holds the id and set_window_frame succeeded for it
FramesAfterPass(h, before, after, fails) ==
  /\ Len(after) = Len(before)
  /\ \A i \in 1 .. Len(before) :
       /\ after[i].window_id = before[i].window_id
       /\ after[i].pid = before[i].pid
       /\ after[i].frame =
            IF /\ before[i].window_id \in HeldBy(h, root)
               /\ before[i].window_id \notin fails
            THEN LET l == CHOOSE n \in Subtree(h, root) :
                            h[n].is_leaf /\ h[n].window_id = before[i].window_id
                 IN  h[l].rect
            ELSE before[i].frame

\* C18: during wm_tile, when set_window_frame fails for a leaf or no
\* managed window exists for the leaf's id, the tree is not modified, the
\* remaining leaves are still visited and the window's cached frame is
\* left unchanged; the cached frame becomes the leaf's rectangle only when
\* placement succeeds.  The pass wm_add_window runs after its insert is a
\* wm_tile as well.
C18_PlacementFailures ==
  [][/\ call'.op = "wm_tile" =>
          LET v == call'.visited
          IN  /\ heap' = heap /\ allocated' = allocated /\ root' = root
              /\ { v[i] : i \in 1 .. Len(v) } = Leaves
              /\ Len(v) = Cardinality(Leaves)
              /\ FramesAfterPass(heap, g_managed_windows, g_managed_windows',
                                 call'.fails)
     /\ call'.op = "wm_add_window" =>
          LET v == call'.visited
              m == bsp_insert(Mem(heap, allocated), root, call'.id, 0)
          IN  /\ heap' = m.heap /\ allocated' = m.allocated /\ root' = root
              /\ { v[i] : i \in 1 .. Len(v) } = Subtree(m.heap, root) \cap
                                                { n \in Addr : m.heap[n].is_leaf }
              /\ \E pid \in Pids :
                   FramesAfterPass(m.heap,
                                   add_to_managed_windows(g_managed_windows, call'.id,
                                                          pid, DiscoveredFrame),
                                   g_managed_windows', call'.fails)]_vars

\* C18 witness: a tiling pass in which placement failed for one leaf, a
\* later leaf was placed, and a third leaf has no managed window
C18_Witness ==
  /\ call.op = "wm_tile"
  /\ \E i, j \in 1 .. Len(call.visited) :
       LET a == heap[call.visited[i]].window_id
           b == heap[call.visited[j]].window_id
           wa == wm_find_managed_window(g_managed_windows, a)
           wb == wm_find_managed_window(g_managed_windows, b)
       IN  /\ i < j
           /\ a \in call.fails /\ wa # 0
           /\ g_managed_windows[wa].frame # heap[call.visited[i]].rect
           /\ b \notin call.fails /\ wb # 0
           /\ g_managed_windows[wb].frame = heap[call.visited[j]].rect
  /\ \E l \in Leaves :
       /\ heap[l].window_id # NoWindow
       /\ wm_find_managed_window(g_managed_windows, heap[l].window_id) = 0

\* the extents of two rectangles overlap along the y axis / the x axis
OverlapY(a, b) == a.y < b.y + b.h /\ b.y < a.y + a.h
OverlapX(a, b) == a.x < b.x + b.w /\ b.x < a.x + a.w

\* C19: in every tree reachable by bsp_insert and bsp_remove_window, for
\* every leaf n, the leaf bsp_find_left_neighbor(n) returns has its right
\* edge on n's left edge and overlaps n vertically; mirrored for right, up
\* and down.
C19_NeighborAdjacency ==
  \A n \in Leaves :
    LET r == RectOf(n)
        l == bsp_find_left_neighbor(heap, n)
        g == bsp_find_right_neighbor(heap, n)
        u == bsp_find_up_neighbor(heap, n)
        d == bsp_find_down_neighbor(heap, n)
    IN  /\ l # NULL => RectOf(l).x + RectOf(l).w = r.x /\ OverlapY(RectOf(l), r)
        /\ g # NULL => r.x + r.w = RectOf(g).x /\ OverlapY(RectOf(g), r)
        /\ u # NULL => RectOf(u).y + RectOf(u).h = r.y /\ OverlapX(RectOf(u), r)
        /\ d # NULL => r.y + r.h = RectOf(d).y /\ OverlapX(RectOf(d), r)

\* the window ids of the occupied leaves of a traversal, in visiting order
VisitedIds(h, v) ==
  LET occ == SelectSeq(v, LAMBDA n : h[n].window_id # NoWindow)
  IN  [i \in 1 .. Len(occ) |-> h[occ[i]].window_id]

\* the ids handed out so far, oldest first
InsertionOrder ==
  [i \in 1 .. (s_next_window_id - FirstWindowId) |-> FirstWindowId + i - 1]

\* the first id, then the other ids newest first
FirstThenNewest ==
  [i \in 1 .. (s_next_window_id - FirstWindowId) |->
     IF i = 1 THEN FirstWindowId ELSE s_next_window_id + 1 - i]

\* C20 as stated: for a tree built by bsp_insert calls, bsp_traverse visits
\* the occupied leaves in the order in which their windows were inserted.
C20_TraversalInsertionOrder ==
  [][call'.op = "traverse" /\ PureInsert =>
       VisitedIds(heap, call'.visited) = InsertionOrder]_vars

\* C20 amended: for a tree built by bsp_insert calls, bsp_traverse visits
\* the leaf of the first inserted window first and then the leaves of the
\* other windows from the last inserted to the second inserted.
C20_TraversalFirstThenNewest ==
  [][call'.op = "traverse" /\ PureInsert =>
       VisitedIds(heap, call'.visited) = FirstThenNewest]_vars

\* C20 witness: a traversal of a tree built by three or more inserts, where
\* the two orders differ
C20_Witness ==
  /\ call.op = "traverse"
  /\ PureInsert
  /\ Len(call.visited) >= 3
  /\ VisitedIds(heap, call.visited) = FirstThenNewest
  /\ FirstThenNewest # InsertionOrder

\* C21: bsp_split_leaf bisects the leaf's rectangle (x,y,w,h) exactly in
\* half along the chosen axis: a vertical split gives first = (x,y,w/2,h)
\* and second = (x+w/2,y,w/2,h), a horizontal split first = (x,y,w,h/2) and
\* second = (x,y+h/2,w,h/2); the two partition the original and the
\* parent's own rectangle is unchanged.
C21_SplitGeometry ==
  [][SplitStep =>
       LET t == InsertTarget
           r == heap[t].rect
           f == heap'[heap'[t].first].rect
           s == heap'[heap'[t].second].rect
       IN  /\ heap'[t].rect = r
           /\ heap'[t].split_vertical =>
                /\ 2 * f.w = r.w
                /\ f = Rect(r.x, r.y, f.w, r.h)
                /\ s = Rect(r.x + f.w, r.y, f.w, r.h)
           /\ ~heap'[t].split_vertical =>
                /\ 2 * f.h = r.h
                /\ f = Rect(r.x, r.y, r.w, f.h)
                /\ s = Rect(r.x, r.y + f.h, r.w, f.h)
           /\ f.w * f.h + s.w * s.h = r.w * r.h
           /\ InteriorsDisjoint(f, s)
           /\ Inside(f, r) /\ Inside(s, r)]_vars

\* C21 witness: splits of both orientations have happened, the last one
\* just now
C21_Witness ==
  /\ call.op = "insert"
  /\ PureInsert
  /\ \E a, b \in Internals : heap[a].split_vertical /\ ~heap[b].split_vertical
  /\ Cardinality(Leaves) = Cardinality(Internals) + 1

\* C22: after bsp_split_leaf(L, v) on an occupied leaf L holding w, L is
\* internal with an empty window slot, L->first is a leaf holding w over
\* the half containing the original origin, L->second is a leaf holding v,
\* and both children's parent is L.
C22_SplitAssignment ==
  [][SplitStep =>
       LET L == InsertTarget
           w == heap[L].window_id
           v == call'.id
           first  == heap'[L].first
           second == heap'[L].second
       IN  /\ ~heap'[L].is_leaf
           /\ heap'[L].window_id = NoWindow
           /\ first # NULL /\ second # NULL /\ first # second
           /\ heap'[first].is_leaf /\ heap'[first].window_id = w
           /\ heap'[first].rect.x = heap[L].rect.x
           /\ heap'[first].rect.y = heap[L].rect.y
           /\ heap'[second].is_leaf /\ heap'[second].window_id = v
           /\ heap'[first].parent = L /\ heap'[second].parent = L]_vars

\* C22 witness: the second insert has just split the root leaf
C22_Witness ==
  /\ call.op = "insert"
  /\ call.id = FirstWindowId + 1
  /\ ~heap[root].is_leaf
  /\ heap[heap[root].first].window_id = FirstWindowId
  /\ heap[heap[root].second].window_id = FirstWindowId + 1

\* the leaf reached from the root through first children only
FirstChildLeaf ==
  CHOOSE l \in Leaves :
    \A k \in Internals :
      l \in Subtree(heap, k) => l \in Subtree(heap, heap[k].first)

\* C23: bsp_insert descends through first children only, so the leaf that
\* is occupied or split is the one reached from the root by first-child
\* links; no node in a second-child subtree is altered, and on a split the
\* previous occupant stays in the first child while the new window goes to
\* the second child.
C23_InsertionPolicy ==
  [][call'.op = "insert" /\ call'.oom = 0 =>
       LET t == FirstChildLeaf
       IN  /\ \A n \in Nodes \ {t} : heap'[n] = heap[n]
           /\ \A k \in Internals : Subtree(heap', heap[k].second) = Subtree(heap, heap[k].second)
           /\ IF heap[t].window_id = NoWindow
              THEN /\ heap'[t] = [heap[t] EXCEPT !.window_id = call'.id]
                   /\ allocated' = allocated
              ELSE /\ ~heap'[t].is_leaf
                   /\ allocated' \ allocated = {heap'[t].first, heap'[t].second}
                   /\ heap'[heap'[t].first].window_id = heap[t].window_id
                   /\ heap'[heap'[t].second].window_id = call'.id]_vars

\* C23 witness: an insert into a tree that already had a second-child
\* subtree
C23_Witness ==
  /\ call.op = "insert"
  /\ Cardinality(Leaves) >= 3
  /\ heap[heap[heap[root].first].first].parent = heap[root].first

\* the ancestors of n that split along the given orientation and hold n in
\* their second (viaSecond) or first child's subtree
QualifyingAncestors(n, vertical, viaSecond) ==
  { a \in Internals :
      /\ heap[a].split_vertical = vertical
      /\ n \in Subtree(heap, IF viaSecond THEN heap[a].second ELSE heap[a].first) }

\* the one of a chain of ancestors that lies below all the others
Nearest(S) == CHOOSE a \in S : \A b \in S : a \in Subtree(heap, b)

\* the leaf reached from start by taking the second (or the first) child
\* at every internal node
Descend(start, takeSecond) ==
  CHOOSE l \in Leaves \cap Subtree(heap, start) :
    \A k \in Internals \cap Subtree(heap, start) :
      l \in Subtree(heap, k) =>
        l \in Subtree(heap, IF takeSecond THEN heap[k].second ELSE heap[k].first)

\* the neighbor the search is to give: towards the first child
\* (viaSecond, i.e. left and up) or towards the second (right and down)
ExpectedNeighbor(n, vertical, viaSecond) ==
  LET S == QualifyingAncestors(n, vertical, viaSecond)
  IN  IF S = {}
      THEN NULL
      ELSE Descend(IF viaSecond THEN heap[Nearest(S)].first
                                ELSE heap[Nearest(S)].second,
                   viaSecond)

\* C24: bsp_find_left_neighbor(n) returns none exactly when no ancestor of
\* n is a vertical split reached through its second child, and otherwise
\* the leaf reached from the nearest such ancestor's first child by taking
\* the second child repeatedly; right, up and down are the mirror images;
\* a root leaf has no neighbor, the result is a leaf different from n, and
\* the search terminates.
C24_NeighborSearch ==
  \A n \in Nodes :
    /\ LeftOf(n)  = ExpectedNeighbor(n, TRUE, TRUE)
    /\ RightOf(n) = ExpectedNeighbor(n, TRUE, FALSE)
    /\ UpOf(n)    = ExpectedNeighbor(n, FALSE, TRUE)
    /\ DownOf(n)  = ExpectedNeighbor(n, FALSE, FALSE)
    /\ {LeftOf(n), RightOf(n), UpOf(n), DownOf(n)} \subseteq (Leaves \ {n}) \cup {NULL}
    /\ n = root => {LeftOf(n), RightOf(n), UpOf(n), DownOf(n)} = {NULL}

\* C24 witness: the right neighbor of a leaf has just been found through
\* an ancestor above its parent, and the same leaf has no left neighbor
C24_Witness ==
  /\ call.op = "find_neighbor"
  /\ call.dir = <<"r", "i", "g", "h", "t">>
  /\ call.node \in Leaves
  /\ call.ret # NULL
  /\ call.ret = ExpectedNeighbor(call.node, TRUE, FALSE)
  /\ Nearest(QualifyingAncestors(call.node, TRUE, FALSE)) # heap[call.node].parent
  /\ LeftOf(call.node) = NULL

\* the addresses a live node points at
PointersOf(n) == {heap[n].first, heap[n].second, heap[n].parent} \ {NULL}

\* C25: the allocated nodes are the nodes reachable from the root; a
\* collapse frees exactly the empty leaf and the promoted child's old
\* node; no live node points at a freed one; bsp_free(root) frees every
\* node exactly once, children before their parent.
C25_NodeLifetime ==
  [][/\ call'.op \in {"insert", "remove"} =>
          /\ allocated' = Nodes'
          /\ \A n \in allocated' : PointersOf(n)' \subseteq allocated'
     /\ call'.op = "remove" /\ call'.ret = 1 =>
          LET l == CHOOSE n \in Leaves : heap[n].window_id = call'.id
              p == heap[l].parent
              sibling == IF heap[p].first = l THEN heap[p].second ELSE heap[p].first
          IN  IF l = root
              THEN allocated' = allocated
              ELSE allocated' = allocated \ {l, sibling}
     /\ call'.op = "cleanup" =>
          LET order == call'.visited
              pos(n) == CHOOSE i \in 1 .. Len(order) : order[i] = n
          IN  /\ Len(order) = Cardinality(Nodes)
              /\ { order[i] : i \in 1 .. Len(order) } = Nodes
              /\ Nodes = allocated
              /\ allocated' = {}
              /\ \A k \in Internals :
                   /\ pos(heap[k].first) < pos(k)
                   /\ pos(heap[k].second) < pos(k)]_vars

\* C25 witness: a tree that went through a collapse has just been freed,
\* five nodes in all
C25_Witness ==
  /\ call.op = "cleanup"
  /\ Len(call.visited) = 5
  /\ s_next_window_id = FirstWindowId + MaxWindows
  /\ allocated = {}

\* the sum of the areas of the leaves below n
RECURSIVE LeafArea(_, _)
LeafArea(h, n) ==
  IF n = NULL THEN 0
  ELSE IF h[n].is_leaf THEN h[n].rect.w * h[n].rect.h
  ELSE LeafArea(h, h[n].first) + LeafArea(h, h[n].second)

\* C26: after any sequence of bsp_insert and bsp_remove_window calls on a
\* root created over display rectangle R, the leaves' rectangles cover R
\* exactly: the leaf areas add up to the area of R.
C26_DisplayCoverage ==
  LeafArea(heap, root) = bounds.w * bounds.h

\* C27: when bsp_remove_window(root, w) returns true on a tree holding
\* distinct ids, afterwards no leaf holds w, every other id held before is
\* still held by exactly one leaf, and no id appears that was not held
\* before.
C27_RemoveExact ==
  [][call'.op = "remove" /\ call'.ret = 1 =>
       /\ call'.id \in Held
       /\ Held' = Held \ {call'.id}
       /\ \A w \in Held' :
            Cardinality({ l \in Leaves' : heap'[l].window_id = w }) = 1]_vars

\* C27 witness: a window has just been removed from a tree that still
\* holds two others
C27_Witness ==
  /\ call.op = "remove"
  /\ call.ret = 1
  /\ call.id \notin Held
  /\ Cardinality(Held) >= 2
  /\ Cardinality(Leaves) = Cardinality(Held)

\* C28: in every tree reachable from bsp_create_root by bsp_insert and
\* bsp_remove_window calls, the second child of every internal node is a
\* leaf, and the number of leaves equals the number of windows held, or 1
\* when no window is held.
C28_LeftSpine ==
  /\ \A k \in Internals : heap[heap[k].second].is_leaf
  /\ Cardinality(Leaves) = IF Held = {} THEN 1 ELSE Cardinality(Held)

\* C28 witness: a removal has just promoted an internal first child, and
\* the tree still has an internal node below the root
C28_Witness ==
  /\ call.op = "remove"
  /\ call.ret = 1
  /\ Cardinality(Held) = 3
  /\ ~heap[root].is_leaf
  /\ ~heap[heap[root].first].is_leaf
  /\ \E k \in Internals : heap[heap[k].second].window_id > heap[heap[root].second].window_id

\* the window ids in the registry
ManagedSet(reg) == { reg[i].window_id : i \in 1 .. Len(reg) }

\* C29: after wm_init and any sequence of wm_add_window, wm_close_window
\* and handle_window_destroyed events, the window ids held by leaves are
\* exactly the window ids in the managed-windows registry.
C29_RegistryAgrees ==
  Held = ManagedSet(g_managed_windows)

\* the (window id, pid) pairs of the registry entries, in order, without
\* the entries of the given pid
OthersOf(reg, pid) ==
  LET keep == SelectSeq(reg, LAMBDA w : w.pid # pid)
  IN  [i \in 1 .. Len(keep) |-> <<keep[i].window_id, keep[i].pid>>]

\* C30: after wm_close_window(pid) no managed window with that pid remains
\* in the registry, none of their ids is held by a leaf, and every managed
\* window with a different pid is still in the registry, in the same
\* relative order, and still in its tree.
C30_CloseByPid ==
  [][call'.op = "wm_close_window" =>
       LET pid == call'.id
           reg == g_managed_windows
           closed == { reg[i].window_id : i \in { j \in 1 .. Len(reg) : reg[j].pid = pid } }
       IN  /\ \A i \in 1 .. Len(g_managed_windows') : g_managed_windows'[i].pid # pid
           /\ Held' \cap closed = {}
           /\ OthersOf(g_managed_windows', pid) = OthersOf(reg, pid)
           /\ Len(g_managed_windows') = Len(OthersOf(reg, pid))
           /\ Held' = Held \ closed
           /\ call'.ret = Cardinality(closed)]_vars

\* C30 witness: the windows at index 0 and 1 of the registry, both of the
\* closed pid, have just been removed and the window of the other pid
\* behind them is still managed and in the tree
C30_Witness ==
  /\ call.op = "wm_close_window"
  /\ call.id = 501
  /\ call.ret = 2
  /\ Len(g_managed_windows) = 1
  /\ g_managed_windows[1].pid = 502
  /\ g_managed_windows[1].window_id = FirstWindowId + 2
  /\ Held = {FirstWindowId + 2}

====
